---- MODULE Spec2Model ----
(***************************************************************************)
(* Activity recognition service: sliding-window feature extraction,        *)
(* rule-based window classification, segmentation, dominant-activity       *)
(* selection and pattern detection (app/utils/patterns.py,                 *)
(* app/services/recognition.py, app/api/routes.py).                        *)
(*                                                                         *)
(* Units.  Acceleration values are integers in 0.01 g.  Timestamps are     *)
(* integer seconds.  Confidences are integers in hundredths (0.7 = 70).    *)
(* A feature vector keeps the numerators of the source's floats:           *)
(*   mean_x  = sum of x            (the mean times w, in 0.01 g)           *)
(*   var_x   = w*sum(x^2)-sum(x)^2 (the variance times w^2 * 10^4)         *)
(*   mean_mag= sum of magnitudes   (the mean times w, in 0.00001 g)        *)
(* with w the window size.  The sums and variances are exact.  A           *)
(* magnitude, a real square root in the source, is enclosed to 0.00002 g   *)
(* (mean_mag .. mean_mag_hi).  The source computes in float64: where the   *)
(* exact value of a float meets a threshold of the classifier and the      *)
(* float went through more than one rounding, the side of the threshold    *)
(* it falls on is left open, and classify_activity has several possible    *)
(* results in the model.                                                   *)
(***************************************************************************)
EXTENDS Integers, Sequences, FiniteSets, TLC

VARIABLES
    pc,                 \* position of the handler
    request,            \* ActivityRequest: [samples, include_patterns]
    overall_metrics,    \* recognize_activity: overall_metrics
    features_list,      \* detect_activity_segments: features_list
    idx,                \* position of the for loop over features_list
    current_activity,   \* detect_activity_segments: current_activity
    segment_start,      \* detect_activity_segments: segment_start (<<>> is None)
    segment_features,   \* detect_activity_segments: segment_features
    segments,           \* detect_activity_segments: segments / activity_segments
    dominant_activity,  \* recognize_activity: dominant_activity
    activity_patterns,  \* response.activity_patterns
    response,           \* what the route returned for the current call
    calls,              \* number of requests received by the service instance
    received,           \* history: the samples of the current call as received
    log,                \* history: request and response of every finished call
    activity_type,      \* detect_activity_segments: activity_type (line 92)
    confidence,         \* detect_activity_segments: confidence (line 92)
    metric_inputs,      \* history: the samples handed to
                        \* calculate_activity_metrics for each segment
    window_results      \* history: what classify_activity returned for each
                        \* window of the loop so far (line 92)

vars == <<pc, request, overall_metrics, features_list, idx, current_activity,
          segment_start, segment_features, segments, dominant_activity,
          activity_patterns, response, calls, received, log, activity_type,
          confidence, metric_inputs,
                   window_results>>

----------------------------------------------------------------------------
(* Bounds of the model *)

MaxShort == 3

MaxBlocks == 4

MaxTail == 1

MaxSegs == 6

MaxCalls == 3

(* Program constants *)

WindowMax == 20

FinalConfidence == 70

SedentaryMinutes == 30

ActiveMinutes == 10

MixedSegments == 5

MixedTypes == 3

ActivityThreshold == 30

----------------------------------------------------------------------------
(* ActivityType *)

WALKING == "walking"
RUNNING == "running"
STANDING == "standing"
SITTING == "sitting"
LYING == "lying"
CYCLING == "cycling"
UNKNOWN == "unknown"

ActivityType == {WALKING, RUNNING, STANDING, SITTING, LYING, CYCLING, UNKNOWN}

None == "None"

\* Python truthiness of an Optional[ActivityType]: None is false, a str enum
\* member is false only when its value is the empty string.
Truthy(v) == v # None /\ v # ""

\* Python truthiness of an Optional[datetime], <<>> standing for None: every
\* datetime is true.
TruthyTime(t) == t # <<>>

Min(a, b) == IF a < b THEN a ELSE b
Max(a, b) == IF a > b THEN a ELSE b
Abs(a) == IF a < 0 THEN -a ELSE a

RECURSIVE SumSeq(_)
SumSeq(s) == IF s = <<>> THEN 0 ELSE Head(s) + SumSeq(Tail(s))

Map(F(_), s) == [i \in 1..Len(s) |-> F(s[i])]

\* s[i:j] of Python for 0-based i <= j <= len(s)
Slice(s, i, j) == SubSeq(s, i + 1, Min(j, Len(s)))

----------------------------------------------------------------------------
(* np.sqrt(x**2 + y**2 + z**2).  The root of a sum of squares is a float64  *)
(* that no integer holds, so the model keeps an enclosure of it: a pair      *)
(* <<lo, hi>> of integers in 0.01 g / RootScale = 0.00001 g with             *)
(* lo <= root <= hi, lo = hi when the root is on the grid.  What the         *)
(* enclosure cannot tell (on which side of a threshold the float falls) is   *)
(* left open where the value is compared, see FloatValues.  Sums of squares  *)
(* are below 2^31, the integers of the model checker: components up to       *)
(* 267 g.                                                                    *)

RootScale == 1000

\* Heron's iteration on integers from a guess not below the root: the
\* guesses decrease down to the floor of the root
RECURSIVE FloorRootFrom(_, _)
FloorRootFrom(n, guess) ==
    LET next == (guess + n \div guess) \div 2
    IN  IF next >= guess THEN guess ELSE FloorRootFrom(n, next)

\* the greatest integer r with r * r <= n (not the float root: its floor),
\* for n below 2^31, whose root is at most 46340
FloorRoot(n) == IF n = 0 THEN 0 ELSE FloorRootFrom(n, 46340)

\* the greatest power of ten a up to RootScale with n * a * a below 2^31
SearchScale(n) ==
    IF n <= 2147483647 \div (RootScale * RootScale) THEN RootScale
    ELSE IF n <= 2147483647 \div (100 * 100) THEN 100
    ELSE IF n <= 2147483647 \div (10 * 10) THEN 10
    ELSE 1

\* <<lo, hi>> around np.sqrt(n) in 1 / RootScale.  With r the floor of the
\* root of n * a^2 and rem what is left of it, the root of r^2 + rem is
\* r + rem / (2 r) less at most rem^2 / (8 r^3), which is below a / RootScale.
RootBounds(n) ==
    IF n = 0 THEN <<0, 0>>
    ELSE LET a == SearchScale(n)
             k == RootScale \div a
             r == FloorRoot(n * a * a)
             rem == n * a * a - r * r
             part == (rem * k) \div (2 * r)
         IN  IF rem = 0 THEN <<r * k, r * k>>
             ELSE <<r * k + part - 1, r * k + part + 1>>

Magnitude(s) == RootBounds(s.x * s.x + s.y * s.y + s.z * s.z)

----------------------------------------------------------------------------
(* app/utils/metrics.py is not among the sources: calculate_activity_metrics *)
(* is modelled from the specification (section 4.4): the zero metric for an *)
(* empty sample set, total_duration = last - first timestamp, intensities   *)
(* clamped to [0, 1] (here 0..100), active_minutes counting the samples     *)
(* whose intensity exceeds the activity threshold.  The intensity of a      *)
(* sample is its magnitude's distance from 1 g, in hundredths.              *)

Intensity(s) == Min(100, Abs(Magnitude(s)[1] - 100 * RootScale) \div RootScale)

\* the intensities of samples[i:]
RECURSIVE Intensities(_, _)
Intensities(samples, i) ==
    IF i > Len(samples) THEN <<>>
    ELSE <<Intensity(samples[i])>> \o Intensities(samples, i + 1)

RECURSIVE MaxSeq(_)
MaxSeq(s) == IF Len(s) = 1 THEN s[1] ELSE Max(Head(s), MaxSeq(Tail(s)))

RECURSIVE MinSeq(_)
MinSeq(s) == IF Len(s) = 1 THEN s[1] ELSE Min(Head(s), MinSeq(Tail(s)))

ZeroMetrics ==
    [avg_intensity |-> 0, peak_intensity |-> 0, movement_consistency |-> 0,
     active_minutes |-> 0, total_duration |-> 0]

CalculateActivityMetrics(samples) ==
    IF samples = <<>> THEN ZeroMetrics
    ELSE LET ints == Intensities(samples, 1)
         IN  [avg_intensity |-> SumSeq(ints) \div Len(samples),
              peak_intensity |-> MaxSeq(ints),
              movement_consistency |-> 100 - (MaxSeq(ints) - MinSeq(ints)),
              active_minutes |->
                  Cardinality({i \in 1..Len(ints) : ints[i] > ActivityThreshold}),
              total_duration |->
                  IF Len(samples) < 2 THEN 0
                  ELSE samples[Len(samples)].timestamp - samples[1].timestamp]

----------------------------------------------------------------------------
(* extract_features *)

WindowSize(samples) == Min(WindowMax, Len(samples))

\* line 25, third argument of range: window_size // 2
NoOverlapStep(samples) == WindowSize(samples)

WindowStep(samples) == WindowSize(samples) \div 2

\* range(0, stop, step) raises ValueError when step is 0; the early return of
\* line 21 comes first.
ExtractRaises(samples) ==
    /\ ~(Len(samples) < WindowSize(samples))
    /\ WindowStep(samples) = 0

\* list(range(0, stop, step)) for step > 0
Range(stop, step) ==
    IF stop <= 0 THEN <<>>
    ELSE [k \in 1..((stop - 1) \div step + 1) |-> (k - 1) * step]

Xs(window) == [i \in 1..Len(window) |-> window[i].x]
Ys(window) == [i \in 1..Len(window) |-> window[i].y]
Zs(window) == [i \in 1..Len(window) |-> window[i].z]

Sq(v) == v * v

\* np.var(values) times len^2: len * sum(v^2) - sum(v)^2
VarNum(values) == Len(values) * SumSeq(Map(Sq, values)) - Sq(SumSeq(values))

\* [np.sqrt(s.x**2 + s.y**2 + s.z**2) for s in window[i:]]
RECURSIVE Magnitudes(_, _)
Magnitudes(window, i) ==
    IF i > Len(window) THEN <<>>
    ELSE <<Magnitude(window[i])>> \o Magnitudes(window, i + 1)

\* c / 100 is a multiple of 1/4: such values, their squares and the sums of
\* a window of them are float64s, and arithmetic on them does not round
Dyadic(c) == c % 25 = 0

\* np.mean(magnitudes) rounds once, in the division: the magnitudes and
\* their sum are exact
ExactMagnitudes(window, magnitudes) ==
    \A i \in 1..Len(window) :
        /\ Dyadic(window[i].x) /\ Dyadic(window[i].y) /\ Dyadic(window[i].z)
        /\ magnitudes[i][1] = magnitudes[i][2]

\* np.var(values) rounds once, in the last division: the mean, the
\* deviations, their squares and the sum of these are exact
ExactVariance(values) ==
    /\ \A i \in 1..Len(values) : Dyadic(values[i])
    /\ SumSeq(values) % (25 * Len(values)) = 0

\* the keys whose float is not the correctly rounded exact value
Rounded(window, magnitudes) ==
    {k \in {"mean_mag"} : ~ExactMagnitudes(window, magnitudes)}
    \cup {k \in {"var_x"} : ~ExactVariance(Xs(window))}
    \cup {k \in {"var_y"} : ~ExactVariance(Ys(window))}
    \cup {k \in {"var_z"} : ~ExactVariance(Zs(window))}

RECURSIVE SumAt(_, _)
SumAt(pairs, k) ==
    IF pairs = <<>> THEN 0 ELSE Head(pairs)[k] + SumAt(Tail(pairs), k)

\* The dict of one window.  mean_x and mean_mag are sums over the window (the
\* mean times w), var_x is np.var times w^2; mean_mag .. mean_mag_hi encloses
\* the sum of the magnitudes; rounded holds the keys whose float went through
\* more than one rounding.
FeatureVector(window) ==
    LET magnitudes == Magnitudes(window, 1)
    IN  [w |-> Len(window),
         mean_x |-> SumSeq(Xs(window)),
         mean_y |-> SumSeq(Ys(window)),
         mean_z |-> SumSeq(Zs(window)),
         var_x |-> VarNum(Xs(window)),
         var_y |-> VarNum(Ys(window)),
         var_z |-> VarNum(Zs(window)),
         mean_mag |-> SumAt(magnitudes, 1),
         mean_mag_hi |-> SumAt(magnitudes, 2),
         rounded |-> Rounded(window, magnitudes),
         start_time |-> window[1].timestamp,
         end_time |-> window[Len(window)].timestamp]

\* Defined when ~ExtractRaises(samples).
ExtractFeatures(samples) ==
    LET window_size == WindowSize(samples)
        starts == Range(Len(samples) - window_size + 1, WindowStep(samples))
    IN  IF Len(samples) < window_size THEN <<>>
        ELSE [k \in 1..Len(starts) |->
                 FeatureVector(Slice(samples, starts[k], starts[k] + window_size))]

----------------------------------------------------------------------------
(* classify_activity: the rule chain, first match wins.  The chain compares *)
(* floats with thresholds written as decimals.  A float that is the         *)
(* correctly rounded exact value (a literal, or one rounding of an exact    *)
(* quotient) compares as the exact value does.  A float that went through   *)
(* several roundings and whose exact value meets a threshold may lie on     *)
(* either side of it (np.mean of 1.04 and 1.06 is 1.0499999999999998,       *)
(* 0.1 + 0.2 is 0.30000000000000004), so the model reads such a value as    *)
(* any of: just below, on, just above the threshold.  Values are read in    *)
(* half units: 2 * t is the threshold t itself.                             *)

\* lines 64-77: the thresholds of mean_mag in 0.01 g, of var_x, var_y, var_z
\* and of their sum in 0.001 g^2
MagThresholds == {105, 110, 150, 180}
VarThresholds == {10, 20, 50, 100, 500}
TotalThresholds == {50, 300}

\* the floats an exact value in lo .. hi may be, in half units
FloatValues(lo, hi, rounded, thresholds) ==
    IF rounded /\ \E t \in thresholds : lo <= t /\ t <= hi
    THEN LET t == CHOOSE u \in thresholds : lo <= u /\ u <= hi
         IN  {2 * t - 1, 2 * t, 2 * t + 1}
    ELSE {2 * lo}

\* features['mean_mag'] against m / 100: sum of magnitudes against
\* m * RootScale * w
MagValues(f) ==
    FloatValues(f.mean_mag, f.mean_mag_hi,
                "mean_mag" \in f.rounded,
                {m * RootScale * f.w : m \in MagThresholds})

\* features[key], a variance, against v / 1000: numerator against
\* v * 10 * w^2 (the thresholds of the sum as well: the sum of one variance
\* and zeros is that variance)
VarValues(f, key) ==
    FloatValues(f[key], f[key], key \in f.rounded,
                {v * 10 * f.w * f.w : v \in VarThresholds \cup TotalThresholds})

\* features['var_x'] + features['var_y'] + features['var_z'] for the floats
\* read: the sum of floats rounds unless at most one of them is not zero
TotalValues(f, var_x, var_y, var_z) ==
    LET terms == {k \in {"var_x", "var_y", "var_z"} : f[k] # 0}
        total == f.var_x + f.var_y + f.var_z
    IN  IF Cardinality(terms) > 1
        THEN FloatValues(total, total, TRUE,
                         {v * 10 * f.w * f.w : v \in TotalThresholds})
        ELSE {var_x + var_y + var_z}

MagLt(f, mag, m) == mag < 2 * m * RootScale * f.w
MagGt(f, mag, m) == mag > 2 * m * RootScale * f.w
VarLt(f, var, v) == var < 2 * v * 10 * f.w * f.w
VarGt(f, var, v) == var > 2 * v * 10 * f.w * f.w

\* line 55: `if not features`, the empty dict (a window list entry always has
\* its nine keys); the empty dict is the record with w = 0
NotFeatures(f) == f.w = 0

NoFeatures ==
    [w |-> 0, mean_x |-> 0, mean_y |-> 0, mean_z |-> 0, var_x |-> 0,
     var_y |-> 0, var_z |-> 0, mean_mag |-> 0, mean_mag_hi |-> 0,
     rounded |-> {}, start_time |-> 0, end_time |-> 0]

\* lines 64-77 with the CYCLING rule tried before WALKING and RUNNING
RulesCyclingFirst(f, mag, var_x, var_y, var_z, total) ==
    IF MagLt(f, mag, 105) /\ VarLt(f, var_x, 10) /\ VarLt(f, var_y, 10)
       /\ VarLt(f, var_z, 10)
    THEN <<STANDING, 80>>
    ELSE IF MagLt(f, mag, 105) /\ VarLt(f, var_x, 20) /\ VarLt(f, var_y, 20)
            /\ VarLt(f, var_z, 20)
    THEN <<SITTING, 80>>
    ELSE IF MagLt(f, mag, 105) /\ VarLt(f, var_x, 50) /\ VarLt(f, var_y, 50)
            /\ VarLt(f, var_z, 50)
    THEN <<LYING, 70>>
    ELSE IF MagGt(f, mag, 110) /\ MagLt(f, mag, 180) /\ VarGt(f, var_x, 100)
            /\ VarLt(f, var_x, 500) /\ VarGt(f, var_y, 100)
            /\ VarLt(f, var_y, 500)
    THEN <<CYCLING, 75>>
    ELSE IF MagGt(f, mag, 110) /\ MagLt(f, mag, 150) /\ VarGt(f, total, 50)
            /\ VarLt(f, total, 300)
    THEN <<WALKING, 90>>
    ELSE IF MagGt(f, mag, 150) /\ VarGt(f, total, 300)
    THEN <<RUNNING, 85>>
    ELSE <<UNKNOWN, 50>>

\* lines 64-77 on the floats read: <<activity_type, confidence>>
ClassifyRules(f, mag, var_x, var_y, var_z, total) ==
    IF MagLt(f, mag, 105) /\ VarLt(f, var_x, 10) /\ VarLt(f, var_y, 10)
       /\ VarLt(f, var_z, 10)
    THEN <<STANDING, 80>>
    ELSE IF MagLt(f, mag, 105) /\ VarLt(f, var_x, 20) /\ VarLt(f, var_y, 20)
            /\ VarLt(f, var_z, 20)
    THEN <<SITTING, 80>>
    ELSE IF MagLt(f, mag, 105) /\ VarLt(f, var_x, 50) /\ VarLt(f, var_y, 50)
            /\ VarLt(f, var_z, 50)
    THEN <<LYING, 70>>
    ELSE IF MagGt(f, mag, 110) /\ MagLt(f, mag, 150) /\ VarGt(f, total, 50)
            /\ VarLt(f, total, 300)
    THEN <<WALKING, 90>>
    ELSE IF MagGt(f, mag, 150) /\ VarGt(f, total, 300)
    THEN <<RUNNING, 85>>
    ELSE IF MagGt(f, mag, 110) /\ MagLt(f, mag, 180) /\ VarGt(f, var_x, 100)
            /\ VarLt(f, var_x, 500) /\ VarGt(f, var_y, 100)
            /\ VarLt(f, var_y, 500)
    THEN <<CYCLING, 75>>
    ELSE <<UNKNOWN, 50>>

\* lines 55-77: the results classify_activity may return for f, one for each
\* reading of the floats; a single result unless a value meets a threshold
ClassifyActivity(f) ==
    IF NotFeatures(f) THEN {<<UNKNOWN, 50>>}
    ELSE UNION {{ClassifyRules(f, mag, v[1], v[2], v[3], total) :
                    mag \in MagValues(f),
                    total \in TotalValues(f, v[1], v[2], v[3])} :
                v \in VarValues(f, "var_x") \X VarValues(f, "var_y")
                         \X VarValues(f, "var_z")}

----------------------------------------------------------------------------
(* detect_activity_segments: the pieces of the loop body and of the close  *)
(* of the last segment.                                                    *)

\* line 95: current_activity != activity_type or not current_activity
AlwaysChanges(current, new_type) == TRUE

SegmentChanges(current, new_type) ==
    current # new_type \/ ~Truthy(current)

\* line 97 and line 126
HasOpenSegment(current, start) == Truthy(current) /\ TruthyTime(start)

\* [s for s in data.samples if lo <= s.timestamp < hi]
SegmentSamplesExclusive(samples, lo, hi) ==
    SelectSeq(samples, LAMBDA s : lo <= s.timestamp /\ s.timestamp < hi)

\* [s for s in data.samples if lo <= s.timestamp <= hi]
SegmentSamples(samples, lo, hi) ==
    SelectSeq(samples, LAMBDA s : lo <= s.timestamp /\ s.timestamp <= hi)

\* lines 99-115: the segment closed when window `features` changes the label
ClosedSegmentToWindowEnd(samples, start, features, current, conf) ==
    [start_time |-> start,
     end_time |-> features.end_time,
     activity_type |-> current,
     confidence |-> conf,
     metrics |-> CalculateActivityMetrics(
                     SegmentSamples(samples, start, features.end_time))]

ClosedSegment(samples, start, features, current, conf) ==
    [start_time |-> start,
     end_time |-> features.start_time,
     activity_type |-> current,
     confidence |-> conf,
     metrics |-> CalculateActivityMetrics(
                     SegmentSamples(samples, start, features.start_time))]

\* lines 127-146: the last segment
LastSegmentClassified(samples, start, seg_features, current) ==
    LET last == seg_features[Len(seg_features)]
    IN  [start_time |-> start,
         end_time |-> last.end_time,
         activity_type |-> current,
         confidence |-> (CHOOSE classified \in ClassifyActivity(last) : TRUE)[2],
         metrics |-> CalculateActivityMetrics(
                         SegmentSamples(samples, start, last.end_time))]

LastSegment(samples, start, seg_features, current) ==
    LET last_time == seg_features[Len(seg_features)].end_time
    IN  [start_time |-> start,
         end_time |-> last_time,
         activity_type |-> current,
         confidence |-> FinalConfidence,
         metrics |-> CalculateActivityMetrics(
                         SegmentSamples(samples, start, last_time))]

----------------------------------------------------------------------------
(* ActivityRecognitionService._determine_dominant_activity.  The dict      *)
(* duration_by_type is a sequence of <<label, seconds>> pairs in insertion  *)
(* order.                                                                  *)

\* (segment.end_time - segment.start_time).total_seconds()
Duration(seg) == seg.end_time - seg.start_time

HasKey(dict, key) == \E i \in 1..Len(dict) : dict[i][1] = key

\* lines 57-60: insert 0 for a new key, then add
AddDuration(dict, key, d) ==
    IF HasKey(dict, key)
    THEN [i \in 1..Len(dict) |->
             IF dict[i][1] = key THEN <<key, dict[i][2] + d>> ELSE dict[i]]
    ELSE Append(dict, <<key, 0 + d>>)

RECURSIVE DurationByType(_)
DurationByType(segs) ==
    IF segs = <<>> THEN <<>>
    ELSE LET front == SubSeq(segs, 1, Len(segs) - 1)
             seg == segs[Len(segs)]
         IN  AddDuration(DurationByType(front), seg.activity_type, Duration(seg))

\* max(items, key=lambda x: x[1]): the first item with the greatest value
RECURSIVE MaxItemFrom(_, _, _)
MaxItemFrom(items, i, best) ==
    IF i > Len(items) THEN best
    ELSE MaxItemFrom(items, i + 1,
                     IF items[i][2] > best[2] THEN items[i] ELSE best)

\* the last item with the greatest value
MaxItemLast(items) ==
    items[CHOOSE i \in 1..Len(items) :
              /\ \A k \in 1..Len(items) : items[k][2] <= items[i][2]
              /\ \A k \in (i + 1)..Len(items) : items[k][2] < items[i][2]]

MaxItem(items) == MaxItemFrom(items, 2, items[1])

FirstType(segs) == IF segs = <<>> THEN UNKNOWN ELSE segs[1].activity_type

DetermineDominantActivity(segs) ==
    IF segs = <<>> THEN UNKNOWN
    ELSE MaxItem(DurationByType(segs))[1]

----------------------------------------------------------------------------
(* detect_activity_patterns.  total_duration is seconds / 60.0 minutes,     *)
(* kept as the exact fraction <<seconds, 60>>.                              *)

RECURSIVE SumDurations(_)
SumDurations(segs) ==
    IF segs = <<>> THEN 0 ELSE Duration(Head(segs)) + SumDurations(Tail(segs))

Minutes(seconds) == <<seconds, 60>>

\* total > minutes
MoreThan(total, minutes) == total[1] > minutes * total[2]

AtLeast(total, minutes) == total[1] >= minutes * total[2]

IsSedentary(seg) == seg.activity_type \in {SITTING, STANDING, LYING}

IsActive(seg) == seg.activity_type \in {WALKING, RUNNING, CYCLING}

TypesOf(segs) == {segs[i].activity_type : i \in 1..Len(segs)}

Description(type) ==
    CASE type = "sedentary" -> "Extended period of low activity"
      [] type = "active" -> "Period of sustained activity"
      [] type = "mixed" -> "Varied activity with multiple transitions"

Pattern(type, total, segs) ==
    [pattern_type |-> type, description |-> Description(type),
     total_duration |-> total, segments |-> segs]

\* lines 161-177
SedentaryPatternInclusive(segs) ==
    LET sedentary_segments == SelectSeq(segs, IsSedentary)
        total == Minutes(SumDurations(sedentary_segments))
    IN  IF sedentary_segments # <<>> /\ AtLeast(total, SedentaryMinutes)
        THEN <<Pattern("sedentary", total, sedentary_segments)>>
        ELSE <<>>

SedentaryPattern(segs) ==
    LET sedentary_segments == SelectSeq(segs, IsSedentary)
        total == Minutes(SumDurations(sedentary_segments))
    IN  IF sedentary_segments # <<>> /\ MoreThan(total, SedentaryMinutes)
        THEN <<Pattern("sedentary", total, sedentary_segments)>>
        ELSE <<>>

\* lines 180-196
ActivePatternSeconds(segs) ==
    LET active_segments == SelectSeq(segs, IsActive)
        total == Minutes(SumDurations(active_segments))
    IN  IF active_segments # <<>> /\ total[1] > ActiveMinutes
        THEN <<Pattern("active", total, active_segments)>>
        ELSE <<>>

ActivePattern(segs) ==
    LET active_segments == SelectSeq(segs, IsActive)
        total == Minutes(SumDurations(active_segments))
    IN  IF active_segments # <<>> /\ MoreThan(total, ActiveMinutes)
        THEN <<Pattern("active", total, active_segments)>>
        ELSE <<>>

\* lines 199-207
MixedPattern(segs) ==
    IF Len(segs) > MixedSegments /\ Cardinality(TypesOf(segs)) >= MixedTypes
    THEN <<Pattern("mixed", Minutes(SumDurations(segs)), segs)>>
    ELSE <<>>

DetectActivityPatterns(segs) ==
    IF segs = <<>> THEN <<>>
    ELSE SedentaryPattern(segs) \o ActivePattern(segs) \o MixedPattern(segs)

----------------------------------------------------------------------------
(* The requests the model sends: the samples of the AccelerationData of a   *)
(* request body are the caller's choice.  A batch is a sequence of samples; *)
(* sample i (from 1) has timestamp 1000 + (i-1)*dt for a per-batch dt,      *)
(* negative dt giving decreasing timestamps.  A style fixes the x, y, z of  *)
(* a sample by the parity of its index, and is named after the label the    *)
(* classifier gives a window of such samples: "still" is gravity alone,     *)
(* "walk" swings x by 0.47 g (magnitude 1.1049 g, not a whole number of     *)
(* 0.01 g), "run" alternates z between 1 g and 3 g.  "edge" alternates z    *)
(* between 1.04 g and 1.06 g: the mean magnitude of a window of it is the   *)
(* 1.05 g of the rules for rest, up to the rounding of np.mean.             *)

Styles == {"still", "walk", "run"}

Dts == {-1, 0, 1, 100}

BlockLen == WindowMax \div 2

StyleXYZ(style, i) ==
    CASE style = "still" -> <<0, 0, 100>>
      [] style = "walk" -> <<IF i % 2 = 1 THEN 47 ELSE -47, 0, 100>>
      [] style = "run" -> <<0, 0, IF i % 2 = 1 THEN 100 ELSE 300>>
      [] style = "edge" -> <<0, 0, IF i % 2 = 1 THEN 104 ELSE 106>>

AccelerationSample(style, i, dt) ==
    LET v == StyleXYZ(style, i)
    IN  [timestamp |-> 1000 + (i - 1) * dt, x |-> v[1], y |-> v[2], z |-> v[3]]

\* n samples, block b of them (BlockLen each, the last one longer) in styles[b]
MakeSamples(styles, n, dt) ==
    [i \in 1..n |->
        AccelerationSample(
            styles[Min((i - 1) \div BlockLen + 1, Len(styles))], i, dt)]

StyleSeqs(lo, hi) == UNION {[1..nb -> Styles] : nb \in lo..hi}

ShortBatches ==
    {MakeSamples(<<st>>, n, dt) : st \in Styles, n \in 0..MaxShort, dt \in Dts}

LongBatches ==
    {MakeSamples(ss, Len(ss) * BlockLen + tail, dt) :
        ss \in StyleSeqs(1, MaxBlocks), tail \in 0..MaxTail, dt \in Dts}

\* batches with windows whose mean magnitude meets a threshold
EdgeBatches ==
    {MakeSamples(c[1], c[2], 1) :
        c \in {<<<<"edge">>, 2>>,
               <<<<"edge", "edge">>, 2 * BlockLen>>,
               <<<<"edge", "edge", "still">>, 3 * BlockLen>>,
               <<<<"still", "edge", "edge", "walk">>, 4 * BlockLen>>,
               <<<<"edge", "edge", "edge", "edge">>, 4 * BlockLen>>}}

Batches == ShortBatches \cup LongBatches \cup EdgeBatches

\* the batches of a session of several calls
SessionBatches ==
    {MakeSamples(<<"walk">>, n, 1) : n \in {0, 2}}
    \cup {MakeSamples(<<"still", "still", "still", c>>, 4 * BlockLen, 1) :
             c \in {"walk", "run"}}

\* the segments handed directly to the selector and the pattern detector
Segment(type, start, end) ==
    [start_time |-> start, end_time |-> end, activity_type |-> type,
     confidence |-> FinalConfidence, metrics |-> ZeroMetrics]

SegmentChoices ==
    {Segment(SITTING, 0, 1200), Segment(STANDING, 100, 700),
     Segment(LYING, 0, 601), Segment(WALKING, 0, 600),
     Segment(RUNNING, 50, 651), Segment(UNKNOWN, 0, 600)}

----------------------------------------------------------------------------
(* State *)

NoResponse == [status_code |-> 0]

Init ==
    /\ pc = "idle"
    /\ request = [samples |-> <<>>, include_patterns |-> FALSE]
    /\ overall_metrics = ZeroMetrics
    /\ features_list = <<>>
    /\ idx = 1
    /\ current_activity = None
    /\ segment_start = <<>>
    /\ segment_features = <<>>
    /\ segments = <<>>
    /\ dominant_activity = UNKNOWN
    /\ activity_patterns = <<>>
    /\ response = NoResponse
    /\ calls = 0
    /\ received = <<>>
    /\ log = <<>>
    /\ activity_type = None
    /\ confidence = 0
    /\ metric_inputs = <<>>
    /\ window_results = <<>>

\* the list a call starts its segments with (line 86)
KeptList(old) == old

NewList(old) == <<>>

\* routes.recognize_activity: the ActivityResponse the service returned
SuccessResponse ==
    [status_code |-> 200,
     status |-> "success",
     activity_segments |-> segments,
     dominant_activity |-> dominant_activity,
     overall_metrics |-> overall_metrics,
     activity_patterns |-> activity_patterns]

\* routes.recognize_activity: except Exception as e -> HTTPException(500,
\* "Error analyzing activity data: " + str(e)); the one exception of the
\* model is the ValueError of range() with step 0
ErrorResponse ==
    [status_code |-> 500,
     detail |-> "Error analyzing activity data: range() arg 3 must not be zero"]

Remember(resp) == Append(log, [request |-> request, response |-> resp])

----------------------------------------------------------------------------
(* POST /recognize: ActivityRecognitionService.recognize_activity, in steps *)

Receive(samples, include_patterns) ==
    /\ pc \in {"idle", "done"}
    /\ request' = [samples |-> samples, include_patterns |-> include_patterns]
    /\ calls' = calls + 1
    /\ received' = samples
    /\ pc' = "metrics"
    /\ UNCHANGED <<overall_metrics, features_list, idx, current_activity,
                   segment_start, segment_features, segments,
                   dominant_activity, activity_patterns, response, log,
                   activity_type, confidence, metric_inputs,
                   window_results>>

\* line 21
OverallMetrics ==
    /\ pc = "metrics"
    /\ overall_metrics' = CalculateActivityMetrics(request.samples)
    /\ pc' = "extract"
    /\ UNCHANGED <<request, features_list, idx, current_activity,
                   segment_start, segment_features, segments,
                   dominant_activity, activity_patterns, response, calls,
                   received, log, activity_type, confidence, metric_inputs,
                   window_results>>

\* patterns.py line 81 raising: the exception leaves detect_activity_segments
\* and recognize_activity, and the route answers 500
ExtractFails ==
    /\ pc = "extract"
    /\ ExtractRaises(request.samples)
    /\ response' = ErrorResponse
    /\ log' = Remember(ErrorResponse)
    /\ pc' = "done"
    /\ UNCHANGED <<request, overall_metrics, features_list, idx,
                   current_activity, segment_start, segment_features, segments,
                   dominant_activity, activity_patterns, calls, received,
                   activity_type, confidence, metric_inputs,
                   window_results>>

\* patterns.py lines 81-89
Extract ==
    /\ pc = "extract"
    /\ ~ExtractRaises(request.samples)
    /\ features_list' = ExtractFeatures(request.samples)
    /\ IF features_list' = <<>>
       THEN /\ segments' = <<>>
            /\ pc' = "dominant"
            /\ UNCHANGED <<idx, current_activity, segment_start, segment_features,
                           metric_inputs>>
       ELSE /\ segments' = NewList(segments)
            /\ metric_inputs' = <<>>
            /\ current_activity' = None
            /\ segment_start' = <<>>
            /\ segment_features' = <<>>
            /\ idx' = 1
            /\ pc' = "loop"
    /\ window_results' = <<>>
    /\ UNCHANGED <<request, overall_metrics, dominant_activity,
                   activity_patterns, response, calls,
                   received, log, activity_type, confidence>>

\* patterns.py lines 91-120: a window whose label opens a new segment
StartSegment ==
    /\ pc = "loop"
    /\ idx <= Len(features_list)
    /\ \E classified \in ClassifyActivity(features_list[idx]) :
       LET features == features_list[idx]
       IN  /\ activity_type' = classified[1]
           /\ confidence' = classified[2]
           /\ window_results' = Append(window_results, classified)
           /\ SegmentChanges(current_activity, activity_type')
           /\ segments' =
                  IF HasOpenSegment(current_activity, segment_start)
                  THEN Append(segments,
                              ClosedSegment(request.samples, segment_start[1],
                                            features, current_activity, confidence'))
                  ELSE segments
           /\ metric_inputs' =
                  IF HasOpenSegment(current_activity, segment_start)
                  THEN Append(metric_inputs,
                              SegmentSamples(request.samples, segment_start[1],
                                             features.start_time))
                  ELSE metric_inputs
           /\ current_activity' = activity_type'
           /\ segment_start' = <<features.start_time>>
           /\ segment_features' = <<features>>
    /\ idx' = idx + 1
    /\ UNCHANGED <<pc, request, overall_metrics, features_list,
                   dominant_activity, activity_patterns, response, calls,
                   received, log>>

\* patterns.py lines 121-123: a window absorbed by the open segment
ContinueSegment ==
    /\ pc = "loop"
    /\ idx <= Len(features_list)
    /\ \E classified \in ClassifyActivity(features_list[idx]) :
       LET features == features_list[idx]
       IN  /\ activity_type' = classified[1]
           /\ confidence' = classified[2]
           /\ window_results' = Append(window_results, classified)
           /\ ~SegmentChanges(current_activity, activity_type')
           /\ segment_features' = Append(segment_features, features)
    /\ idx' = idx + 1
    /\ UNCHANGED <<pc, request, overall_metrics, features_list, current_activity,
                   segment_start, segments, dominant_activity,
                   activity_patterns, response, calls, received, log,
                   metric_inputs>>

\* patterns.py lines 125-148
CloseLast ==
    /\ pc = "loop"
    /\ idx > Len(features_list)
    /\ segments' =
           IF HasOpenSegment(current_activity, segment_start)
              /\ segment_features # <<>>
           THEN Append(segments,
                       LastSegment(request.samples, segment_start[1],
                                   segment_features, current_activity))
           ELSE segments
    /\ metric_inputs' =
           IF HasOpenSegment(current_activity, segment_start)
              /\ segment_features # <<>>
           THEN Append(metric_inputs,
                       SegmentSamples(request.samples, segment_start[1],
                                      segment_features[Len(segment_features)].end_time))
           ELSE metric_inputs
    /\ pc' = "dominant"
    /\ UNCHANGED <<request, overall_metrics, features_list, idx,
                   current_activity, segment_start, segment_features,
                   dominant_activity, activity_patterns, response, calls,
                   received, log, activity_type, confidence, window_results>>

\* recognition.py lines 27-36
Dominant ==
    /\ pc = "dominant"
    /\ dominant_activity' = DetermineDominantActivity(segments)
    /\ activity_patterns' = <<>>
    /\ pc' = "patterns"
    /\ UNCHANGED <<request, overall_metrics, features_list, idx,
                   current_activity, segment_start, segment_features, segments,
                   response, calls,
                   received, log, activity_type, confidence, metric_inputs,
                   window_results>>

\* recognition.py lines 39-44 and routes.py lines 13-14
Respond ==
    /\ pc = "patterns"
    /\ activity_patterns' =
           IF request.include_patterns THEN DetectActivityPatterns(segments)
           ELSE activity_patterns
    /\ response' = [SuccessResponse EXCEPT !.activity_patterns = activity_patterns']
    /\ log' = Remember(response')
    /\ pc' = "done"
    /\ UNCHANGED <<request, overall_metrics, features_list, idx,
                   current_activity, segment_start, segment_features, segments,
                   dominant_activity, calls, received,
                   activity_type, confidence, metric_inputs,
                   window_results>>

Handle ==
    \/ OverallMetrics
    \/ ExtractFails
    \/ Extract
    \/ StartSegment
    \/ ContinueSegment
    \/ CloseLast
    \/ Dominant
    \/ Respond

\* one request
FirstRequest ==
    /\ calls = 0
    /\ \E samples \in Batches, include_patterns \in BOOLEAN :
           Receive(samples, include_patterns)

Next == FirstRequest \/ Handle

Spec == Init /\ [][Next]_vars

----------------------------------------------------------------------------
(* A session: the one service instance of routes.py answers several        *)
(* requests, one after the other.                                          *)

SessionRequest ==
    /\ calls < MaxCalls
    /\ \E samples \in SessionBatches, include_patterns \in BOOLEAN :
           Receive(samples, include_patterns)

SessionNext == SessionRequest \/ Handle

SessionSpec == Init /\ [][SessionNext]_vars

----------------------------------------------------------------------------
(* The selector and the pattern detector called on segment sequences of    *)
(* the caller's choice.                                                    *)

SegInit ==
    /\ pc = "input"
    /\ request = [samples |-> <<>>, include_patterns |-> FALSE]
    /\ overall_metrics = ZeroMetrics
    /\ features_list = <<>>
    /\ idx = 1
    /\ current_activity = None
    /\ segment_start = <<>>
    /\ segment_features = <<>>
    /\ segments = <<>>
    /\ dominant_activity = UNKNOWN
    /\ activity_patterns = <<>>
    /\ response = NoResponse
    /\ calls = 0
    /\ received = <<>>
    /\ log = <<>>
    /\ activity_type = None
    /\ confidence = 0
    /\ metric_inputs = <<>>
    /\ window_results = <<>>

AppendSegment(seg) ==
    /\ pc = "input"
    /\ Len(segments) < MaxSegs
    /\ segments' = Append(segments, seg)
    /\ UNCHANGED <<pc, request, overall_metrics, features_list, idx,
                   current_activity, segment_start, segment_features,
                   dominant_activity, activity_patterns, response, calls,
                   received, log,
                   activity_type, confidence, metric_inputs,
                   window_results>>

CallDominant ==
    /\ pc = "input"
    /\ dominant_activity' = DetermineDominantActivity(segments)
    /\ pc' = "dominant_returned"
    /\ UNCHANGED <<request, overall_metrics, features_list, idx,
                   current_activity, segment_start, segment_features, segments,
                   activity_patterns, response, calls,
                   received, log, activity_type, confidence, metric_inputs,
                   window_results>>

CallPatterns ==
    /\ pc = "input"
    /\ activity_patterns' = DetectActivityPatterns(segments)
    /\ pc' = "patterns_returned"
    /\ UNCHANGED <<request, overall_metrics, features_list, idx,
                   current_activity, segment_start, segment_features, segments,
                   dominant_activity, response, calls,
                   received, log, activity_type, confidence, metric_inputs,
                   window_results>>

SegNext ==
    \/ \E seg \in SegmentChoices : AppendSegment(seg)
    \/ CallDominant
    \/ CallPatterns

SegSpec == SegInit /\ [][SegNext]_vars

----------------------------------------------------------------------------
(* classify_activity called on feature dicts of the caller's choice: the   *)
(* empty dict, and mean_mag (hundredths) and variances (thousandths) on and *)
(* around the thresholds of the rules.                                      *)

MagGrid == {100, 105, 111, 149, 150, 151, 179, 180}

VarGrid ==
    {0, 9, 10, 19, 20, 49, 50, 51, 100, 101, 200, 299, 300, 301, 499, 500}

\* the dict with the literals mean_mag = m/100 and var_x, var_y, var_z =
\* vx, vy, vz /1000
Features(m, vx, vy, vz) ==
    [w |-> WindowMax, mean_x |-> 0, mean_y |-> 0, mean_z |-> 0,
     var_x |-> vx * 10 * WindowMax * WindowMax,
     var_y |-> vy * 10 * WindowMax * WindowMax,
     var_z |-> vz * 10 * WindowMax * WindowMax,
     mean_mag |-> m * RootScale * WindowMax,
     mean_mag_hi |-> m * RootScale * WindowMax,
     rounded |-> {}, start_time |-> 0, end_time |-> 0]

ClassifyInputs ==
    {NoFeatures}
    \cup {Features(m, vx, vy, vz) : m \in MagGrid, vx \in VarGrid,
                                    vy \in VarGrid, vz \in VarGrid}

ClassInit ==
    /\ pc = "classify_input"
    /\ request = [samples |-> <<>>, include_patterns |-> FALSE]
    /\ overall_metrics = ZeroMetrics
    /\ features_list = <<>>
    /\ idx = 1
    /\ current_activity = None
    /\ segment_start = <<>>
    /\ segment_features = <<>>
    /\ segments = <<>>
    /\ dominant_activity = UNKNOWN
    /\ activity_patterns = <<>>
    /\ response = NoResponse
    /\ calls = 0
    /\ received = <<>>
    /\ log = <<>>
    /\ activity_type = None
    /\ confidence = 0
    /\ metric_inputs = <<>>
    /\ window_results = <<>>

ChooseFeatures(features) ==
    /\ pc = "classify_input"
    /\ features_list' = <<features>>
    /\ pc' = "classify"
    /\ UNCHANGED <<request, overall_metrics, idx, current_activity,
                   segment_start, segment_features, segments,
                   dominant_activity, activity_patterns, response, calls,
                   received, log, activity_type, confidence, metric_inputs,
                   window_results>>

\* activity_type, confidence = classify_activity(features)
CallClassify ==
    /\ pc = "classify"
    /\ \E classified \in ClassifyActivity(features_list[1]) :
           /\ activity_type' = classified[1]
           /\ confidence' = classified[2]
           /\ window_results' = <<classified>>
    /\ pc' = "classified"
    /\ UNCHANGED <<request, overall_metrics, features_list, idx,
                   current_activity, segment_start, segment_features, segments,
                   dominant_activity, activity_patterns, response, calls,
                   received, log, metric_inputs>>

ClassifyRequest ==
    /\ pc = "classify_input"
    /\ \E features \in ClassifyInputs : ChooseFeatures(features)

ClassNext == ClassifyRequest \/ CallClassify

ClassSpec == ClassInit /\ [][ClassNext]_vars

----------------------------------------------------------------------------
(* Properties *)

\* the handler has the segments of the current request in hand
SegmentsReturned ==
    \/ pc \in {"dominant", "patterns"}
    \/ pc = "done" /\ response.status_code = 200

Finished == pc = "done"

Succeeded == pc = "done" /\ response.status_code = 200

WindowLabels == [k \in 1..Len(window_results) |-> window_results[k][1]]

\* the windows that start a maximal run of equal labels
RunStarts ==
    {k \in 1..Len(window_results) : k = 1 \/ WindowLabels[k] # WindowLabels[k - 1]}

\* the j-th smallest member of a set of integers
Nth(S, j) == CHOOSE k \in S : Cardinality({m \in S : m < k}) = j - 1

NonDecreasing(samples) ==
    \A i \in 1..(Len(samples) - 1) : samples[i].timestamp <= samples[i + 1].timestamp

\* the summed seconds of the segments of segs whose label is in types
RECURSIVE LabelSeconds(_, _)
LabelSeconds(segs, types) ==
    IF segs = <<>> THEN 0
    ELSE (IF segs[1].activity_type \in types
          THEN segs[1].end_time - segs[1].start_time ELSE 0)
         + LabelSeconds(Tail(segs), types)

SedentaryTypes == {SITTING, STANDING, LYING}

ActiveTypes == {WALKING, RUNNING, CYCLING}

\* the pattern conditions of the specification, in seconds
SedentaryHolds(segs) == LabelSeconds(segs, SedentaryTypes) > 30 * 60

ActiveHolds(segs) == LabelSeconds(segs, ActiveTypes) > 10 * 60

MixedHolds(segs) ==
    Len(segs) > 5 /\ Cardinality({segs[i].activity_type : i \in 1..Len(segs)}) >= 3

\* C1: an empty batch is answered with status "success", no segments,
\* dominant activity UNKNOWN, no patterns and zero avg_intensity,
\* peak_intensity and active_minutes.  (Violated: extract_features raises on
\* the empty batch and the route answers 500.)
C1_EmptyBatchSucceeds ==
    (Finished /\ request.samples = <<>>) =>
        /\ response.status_code = 200
        /\ response.status = "success"
        /\ response.activity_segments = <<>>
        /\ response.dominant_activity = UNKNOWN
        /\ response.activity_patterns = <<>>
        /\ response.overall_metrics.avg_intensity = 0
        /\ response.overall_metrics.peak_intensity = 0
        /\ response.overall_metrics.active_minutes = 0

\* C2: extract_features never raises, whatever the number of samples, and
\* gives the empty sequence for the empty batch.  (Violated for 0 and 1
\* samples: the window step is 0 and range() raises.)
C2_ExtractNeverRaises ==
    /\ Finished => response.status_code # 500
    /\ (SegmentsReturned /\ request.samples = <<>>) => features_list = <<>>

\* C3: detect_activity_segments returns one segment per maximal run of
\* equally labelled consecutive windows, in window order and with the run's
\* label: 1 + (number of adjacent windows with different labels) segments,
\* adjacent segments of different types, none for no window.
C3_OneSegmentPerRun ==
    SegmentsReturned =>
        /\ features_list = <<>> => segments = <<>>
        /\ features_list # <<>> =>
               Len(segments) = 1 + Cardinality(
                   {k \in 1..(Len(features_list) - 1) :
                       WindowLabels[k] # WindowLabels[k + 1]})
        /\ \A j \in 1..(Len(segments) - 1) :
               segments[j].activity_type # segments[j + 1].activity_type
        /\ \A j \in 1..Len(segments) :
               segments[j].activity_type = WindowLabels[Nth(RunStarts, j)]

\* C3 witness: three or more windows were merged into exactly two segments
C3_Witness ==
    SegmentsReturned /\ Len(features_list) >= 3 /\ Len(segments) = 2

\* C4: the label _determine_dominant_activity returns has a summed duration
\* at least that of every label present; UNKNOWN for no segments.
C4_DominantIsMaximal ==
    pc = "dominant_returned" =>
        IF segments = <<>> THEN dominant_activity = UNKNOWN
        ELSE /\ \E i \in 1..Len(segments) :
                    segments[i].activity_type = dominant_activity
             /\ \A i \in 1..Len(segments) :
                    LabelSeconds(segments, {dominant_activity})
                        >= LabelSeconds(segments, {segments[i].activity_type})

\* C4 witness: the selector returned a label other than the first segment's,
\* whose summed duration is strictly less
C4_Witness ==
    /\ pc = "dominant_returned"
    /\ Len(segments) >= 3
    /\ dominant_activity # segments[1].activity_type
    /\ LabelSeconds(segments, {dominant_activity})
           > LabelSeconds(segments, {segments[1].activity_type})

\* C5: detect_activity_patterns returns exactly the patterns whose condition
\* holds, in the order sedentary, active, mixed, each with its segments and
\* their summed duration in minutes; none for no segments.
C5_PatternsExactlyThoseHolding ==
    pc = "patterns_returned" =>
        LET sed == SelectSeq(segments, LAMBDA g : g.activity_type \in SedentaryTypes)
            act == SelectSeq(segments, LAMBDA g : g.activity_type \in ActiveTypes)
            expected ==
                (IF SedentaryHolds(segments) THEN <<"sedentary">> ELSE <<>>)
                \o (IF ActiveHolds(segments) THEN <<"active">> ELSE <<>>)
                \o (IF MixedHolds(segments) THEN <<"mixed">> ELSE <<>>)
        IN  /\ segments = <<>> => activity_patterns = <<>>
            /\ Len(activity_patterns) = Len(expected)
            /\ \A i \in 1..Len(expected) :
                   LET p == activity_patterns[i]
                   IN  /\ p.pattern_type = expected[i]
                       /\ p.pattern_type = "sedentary" =>
                              /\ p.segments = sed
                              /\ p.total_duration =
                                     <<LabelSeconds(segments, SedentaryTypes), 60>>
                       /\ p.pattern_type = "active" =>
                              /\ p.segments = act
                              /\ p.total_duration =
                                     <<LabelSeconds(segments, ActiveTypes), 60>>
                       /\ p.pattern_type = "mixed" =>
                              /\ p.segments = segments
                              /\ p.total_duration =
                                     <<LabelSeconds(segments, ActivityType), 60>>

\* C5 witness: all three patterns were returned
C5_Witness ==
    pc = "patterns_returned" /\ Len(activity_patterns) = 3

\* C6 as claimed: a batch recognized into more than one segment, with
\* include_patterns true, has a non-empty pattern list.
C6_SeveralSegmentsGivePatterns ==
    (Succeeded /\ request.include_patterns
        /\ Len(response.activity_segments) > 1)
    => response.activity_patterns # <<>>

\* C6 amended: a batch recognized into more than one segment, with
\* include_patterns true, has a non-empty pattern list exactly when its
\* segments meet one of the three pattern conditions.
C6_PatternsIffConditionHolds ==
    (Succeeded /\ request.include_patterns
        /\ Len(response.activity_segments) > 1)
    => (response.activity_patterns # <<>>
        <=> \/ SedentaryHolds(response.activity_segments)
            \/ ActiveHolds(response.activity_segments)
            \/ MixedHolds(response.activity_segments))

\* C6 witness: two different activities one after the other gave a pattern
C6_Witness ==
    /\ Succeeded
    /\ request.include_patterns
    /\ Len(response.activity_segments) > 1
    /\ response.activity_patterns # <<>>

\* C7: the last segment has confidence 0.7 and ends at the last window's
\* end_time, whatever the classifier's confidence.
C7_LastSegmentFixedConfidence ==
    SegmentsReturned =>
        /\ features_list # <<>> => segments # <<>>
        /\ segments # <<>> =>
               /\ segments[Len(segments)].confidence = 70
               /\ segments[Len(segments)].end_time
                      = features_list[Len(features_list)].end_time

\* C7 witness: a last segment whose windows the classifier gave another
\* confidence than 0.7, after an earlier segment
C7_Witness ==
    /\ SegmentsReturned
    /\ Len(segments) >= 2
    /\ window_results[Len(window_results)][2] # 70

\* C8: recognize_activity always answers "success"; the patterns are empty
\* without include_patterns and those of detect_activity_patterns on the
\* returned segments with it.  (Violated: batches of 0 or 1 samples raise.)
C8_AlwaysSuccess ==
    Finished =>
        /\ response.status_code = 200
        /\ response.status = "success"
        /\ ~request.include_patterns => response.activity_patterns = <<>>
        /\ request.include_patterns =>
               response.activity_patterns
                   = DetectActivityPatterns(response.activity_segments)

\* C9: calls on the same batch return the same segments, dominant activity
\* and metrics, and the same patterns for the same include_patterns, whatever
\* was called in between; a call leaves the samples of its batch unchanged.
C9_SameBatchSameResult ==
    /\ \A i \in 1..Len(log) : \A j \in 1..Len(log) :
           log[i].request.samples = log[j].request.samples =>
               LET a == log[i].response
                   b == log[j].response
               IN  /\ a.status_code = b.status_code
                   /\ a.status_code = 200 =>
                          /\ a.activity_segments = b.activity_segments
                          /\ a.dominant_activity = b.dominant_activity
                          /\ a.overall_metrics = b.overall_metrics
                          /\ log[i].request.include_patterns
                                 = log[j].request.include_patterns
                             => a.activity_patterns = b.activity_patterns
    /\ pc # "idle" => request.samples = received

\* C9 witness: a batch answered with two segments, another batch, then the
\* first batch again
C9_Witness ==
    /\ Len(log) = 3
    /\ log[1].request = log[3].request
    /\ log[2].request.samples # log[1].request.samples
    /\ log[2].response.status_code = 200
    /\ log[3].response.status_code = 200
    /\ Len(log[3].response.activity_segments) >= 2

\* C10: for non-decreasing timestamps the segments form a chain: the first
\* starts at the first window's start_time, a non-final segment ends at the
\* start_time of the first window with another label, which is the next
\* segment's start_time, the final one ends at the last window's end_time,
\* and start_time <= end_time in every segment.
C10_SegmentsChain ==
    (SegmentsReturned /\ NonDecreasing(request.samples) /\ features_list # <<>>) =>
        /\ Len(segments) = Cardinality(RunStarts)
        /\ segments[1].start_time = features_list[1].start_time
        /\ \A j \in 1..(Len(segments) - 1) :
               /\ segments[j].end_time
                      = features_list[Nth(RunStarts, j + 1)].start_time
               /\ segments[j].end_time = segments[j + 1].start_time
        /\ segments[Len(segments)].end_time
               = features_list[Len(features_list)].end_time
        /\ \A j \in 1..Len(segments) :
               segments[j].start_time <= segments[j].end_time

\* C10 witness: three segments over increasing timestamps
C10_Witness ==
    /\ SegmentsReturned
    /\ NonDecreasing(request.samples)
    /\ Len(segments) >= 3
    /\ segments[1].start_time < segments[1].end_time

\* extract_features has just returned its list
ExtractReturned ==
    \/ pc = "loop" /\ idx = 1
    \/ pc = "dominant" /\ features_list = <<>>

\* C11: for n >= 2 samples, with w = min(20, n) and step = w div 2, there are
\* exactly (n - w) div step + 1 feature vectors; the k-th (from 0) is the
\* feature vector of the w consecutive samples k*step+1 .. k*step+w (counted
\* from 1), its start_time and end_time are the timestamps of the first and
\* the last of them, and no sample after the last window is used.
C11_WindowsCoverFittingPrefix ==
    (ExtractReturned /\ Len(request.samples) >= 2) =>
        LET samples == request.samples
            n == Len(samples)
            w == IF n < WindowMax THEN n ELSE WindowMax
            step == w \div 2
            count == (n - w) \div step + 1
        IN  /\ Len(features_list) = count
            /\ \A k \in 0..(count - 1) :
                   LET f == features_list[k + 1]
                       first == k * step + 1
                       last == k * step + w
                   IN  /\ last <= n
                       /\ f = FeatureVector(SubSeq(samples, first, last))
                       /\ f.w = w
                       /\ f.start_time = samples[first].timestamp
                       /\ f.end_time = samples[last].timestamp
                       /\ f.mean_z = SumSeq([i \in 1..w |->
                                                samples[first + i - 1].z])

\* C11 witness: three overlapping windows and a trailing sample that is in
\* none of them, under distinct timestamps
C11_Witness ==
    /\ ExtractReturned
    /\ Len(features_list) = 3
    /\ Len(request.samples) = 2 * WindowMax + 1
    /\ features_list[2].start_time = request.samples[BlockLen + 1].timestamp
    /\ features_list[3].end_time
           < request.samples[Len(request.samples)].timestamp

\* what the float sum var_x + var_y + var_z may be next to the exact sum, in
\* halves of the unit of the variances: off by rounding when the exact sum of
\* several terms is a bound of the table
SumReadings(f) ==
    LET sq == 100 * f.w * 100 * f.w
        total == f.var_x + f.var_y + f.var_z
        terms == Cardinality({k \in {"var_x", "var_y", "var_z"} : f[k] # 0})
    IN  IF terms > 1 /\ 100 * total \in {5 * sq, 30 * sq}
        THEN {-1, 0, 1} ELSE {0}

\* the conditions of the six rules on a feature dict, in the order of the
\* rule table, on the fractions mean_mag / (100 RootScale w) and
\* var / (100 w)^2,
\* the sum of the variances read as twice the exact sum plus reading
RuleTable(f, reading) ==
    LET mag == f.mean_mag
        one == 100 * RootScale * f.w
        sq == 100 * f.w * 100 * f.w
        total == 2 * 100 * (f.var_x + f.var_y + f.var_z) + reading
        AllBelow(p) == /\ 100 * f.var_x < p * sq
                       /\ 100 * f.var_y < p * sq
                       /\ 100 * f.var_z < p * sq
        Within(v, lo, hi) == lo * sq < 100 * v /\ 100 * v < hi * sq
    IN  <<[label |-> STANDING, confidence |-> 80,
           holds |-> 20 * mag < 21 * one /\ AllBelow(1)],
          [label |-> SITTING, confidence |-> 80,
           holds |-> 20 * mag < 21 * one /\ AllBelow(2)],
          [label |-> LYING, confidence |-> 70,
           holds |-> 20 * mag < 21 * one /\ AllBelow(5)],
          [label |-> WALKING, confidence |-> 90,
           holds |-> /\ 11 * one < 10 * mag /\ 2 * mag < 3 * one
                     /\ 2 * 5 * sq < total /\ total < 2 * 30 * sq],
          [label |-> RUNNING, confidence |-> 85,
           holds |-> 2 * mag > 3 * one /\ total > 2 * 30 * sq],
          [label |-> CYCLING, confidence |-> 75,
           holds |-> /\ 11 * one < 10 * mag /\ 5 * mag < 9 * one
                     /\ Within(f.var_x, 10, 50)
                     /\ Within(f.var_y, 10, 50)]>>

\* the confidence that goes with a label
ConfidenceOf(label) ==
    CASE label \in {STANDING, SITTING} -> 80
      [] label = LYING -> 70
      [] label = WALKING -> 90
      [] label = RUNNING -> 85
      [] label = CYCLING -> 75
      [] label = UNKNOWN -> 50

\* C12: classify_activity returns for every feature dict the label and the
\* confidence of the first rule of the table whose condition holds, and
\* (UNKNOWN, 0.5) when none holds; a dict satisfying the WALKING and the
\* CYCLING condition is WALKING, one satisfying RUNNING and CYCLING is
\* RUNNING; the confidence is within [0, 1] and determined by the label.
\* (The conditions on the sum of the variances are conditions on the float
\* sum.)
C12_FirstMatchingRuleWins ==
    (pc = "classified") =>
      \E reading \in SumReadings(features_list[1]) :
        LET f == features_list[1]
            table == RuleTable(f, reading)
            hits == {i \in 1..Len(table) : f.w > 0 /\ table[i].holds}
        IN  /\ activity_type \in ActivityType
            /\ IF hits = {}
               THEN activity_type = UNKNOWN /\ confidence = 50
               ELSE \E i \in hits :
                        /\ \A h \in hits : i <= h
                        /\ activity_type = table[i].label
                        /\ confidence = table[i].confidence
            /\ ({4, 6} \subseteq hits => activity_type = WALKING)
            /\ ({5, 6} \subseteq hits => activity_type = RUNNING)
            /\ confidence \in 0..100
            /\ confidence = ConfidenceOf(activity_type)

\* C12 witness: a classified dict on which the WALKING and the CYCLING rule
\* both hold
C12_Witness ==
    /\ pc = "classified"
    /\ features_list[1].w > 0
    /\ RuleTable(features_list[1], 0)[4].holds
    /\ RuleTable(features_list[1], 0)[6].holds
    /\ activity_type = WALKING
    /\ confidence = 90

\* the timestamp that bounds the j-th segment's samples from above, starts
\* being the windows that start a run: the start_time of the window that
\* changed the label, and for the final segment the end_time of the last
\* window
UpperBound(starts, j) ==
    IF j < Cardinality(starts)
    THEN features_list[Nth(starts, j + 1)].start_time
    ELSE features_list[Len(features_list)].end_time

\* the samples of the batch with lo <= timestamp <= hi, in batch order
SamplesBetween(lo, hi) ==
    LET InRange(s) == ~(s.timestamp < lo) /\ ~(s.timestamp > hi)
    IN  SelectSeq(request.samples, InRange)

\* the metrics function is called once for each emitted segment, the j-th
\* time on exactly the samples between the j-th segment's start and its upper
\* bound, and the segment emitted last carries the metrics of those samples
\* (the earlier ones did when they were emitted, and are kept as they were)
MetricsOverOwnSamples ==
    (features_list # <<>> /\ (pc = "loop" \/ SegmentsReturned)) =>
        LET starts == RunStarts
        IN  /\ Len(metric_inputs) = Len(segments)
            /\ \A j \in 1..Len(segments) :
                   LET lo == features_list[Nth(starts, j)].start_time
                       own == SamplesBetween(lo, UpperBound(starts, j))
                   IN  /\ metric_inputs[j] = own
                       /\ (j = Len(segments)) =>
                              segments[j].metrics = CalculateActivityMetrics(own)

\* a step leaves every segment already in the list as it is
EmittedSegmentsKept ==
    /\ Len(segments') >= Len(segments)
    /\ SubSeq(segments', 1, Len(segments)) = segments

\* C13: the metrics of a segment closed by a label change are those of exactly
\* the samples of the batch with segment_start <= t <= start_time of the
\* window that changed the label, the final segment's those with
\* segment_start <= t <= end_time of the last window; they are computed once,
\* when the segment is closed, and no later step changes an emitted segment.
C13_MetricsOverInclusiveRange ==
    []MetricsOverOwnSamples /\ [][EmittedSegmentsKept]_vars

\* C13 witness: a segment closed by a label change while the loop is still
\* running, its samples a proper non-empty part of the batch that includes
\* the sample at the upper bound
C13_Witness ==
    /\ pc = "loop"
    /\ Len(segments) = 1
    /\ idx <= Len(features_list)
    /\ metric_inputs[1] # <<>>
    /\ Len(metric_inputs[1]) < Len(request.samples)
    /\ \E i \in 1..Len(metric_inputs[1]) :
           metric_inputs[1][i].timestamp = segments[1].end_time
    /\ segments[1].metrics.total_duration > 0

\* the labels of segs with the greatest summed duration
TiedLabels(segs) ==
    LET labels == {segs[i].activity_type : i \in 1..Len(segs)}
        seconds == [l \in labels |-> LabelSeconds(segs, {l})]
    IN  {l \in labels : \A other \in labels : seconds[other] <= seconds[l]}

\* the position of the first segment of segs with the label
FirstSegmentOf(segs, label) ==
    CHOOSE i \in 1..Len(segs) :
        /\ segs[i].activity_type = label
        /\ \A k \in 1..(i - 1) : segs[k].activity_type # label

\* C14: when several labels tie for the greatest summed duration, the
\* selector returns the tied label whose first segment comes earliest in the
\* segment sequence.
C14_TieGoesToEarliestLabel ==
    (pc = "dominant_returned" /\ segments # <<>>) =>
        LET tied == TiedLabels(segments)
        IN  /\ dominant_activity \in tied
            /\ \A l \in tied :
                   FirstSegmentOf(segments, dominant_activity)
                       <= FirstSegmentOf(segments, l)

\* C14 witness: two or more labels tie, and the one returned is neither the
\* label of the first segment nor that of the last
C14_Witness ==
    /\ pc = "dominant_returned"
    /\ Len(segments) >= 3
    /\ Cardinality(TiedLabels(segments)) >= 2
    /\ FirstSegmentOf(segments, dominant_activity) > 1
    /\ segments[Len(segments)].activity_type # dominant_activity
    /\ segments[Len(segments)].activity_type \in TiedLabels(segments)

\* C15: the confidence of every non-final segment, one closed by a label
\* change, is the confidence the classifier gives to that segment's own
\* label, the confidence of the windows merged into it.
C15_ClosedSegmentOwnConfidence ==
    SegmentsReturned =>
        \A j \in 1..(Len(segments) - 1) :
            /\ segments[j].confidence = ConfidenceOf(segments[j].activity_type)
            /\ segments[j].confidence
                   = window_results[Nth(RunStarts, j)][2]

====
